---- MODULE Spec2Model ----
(***************************************************************************)
(* Model of MarlinEnder3Streamer.cpp: the G-code streamer's command        *)
(* transformer (modify_line), line framer and acknowledgment state machine *)
(* (the streaming loop of main).                                           *)
(*                                                                         *)
(* Text is modelled by TLA+ strings; a character is a string of length 1.  *)
(* String positions are 0-based as in std::string and npos is -1.          *)
(***************************************************************************)
EXTENDS Integers, Sequences, FiniteSets, TLC

(***************************************************************************)
(* std::string primitives                                                  *)
(***************************************************************************)
npos == -1

\* s[i], 0-based; s[s.size()] is the terminating NUL, modelled by ""
At(s, i) == IF i < Len(s) THEN SubSeq(s, i + 1, i + 1) ELSE ""

\* s.substr(pos)
substr(s, pos) == SubSeq(s, pos + 1, Len(s))

\* s.erase(pos, n); n = npos erases to the end
erase(s, pos, n) ==
    IF n = npos \/ pos + n >= Len(s)
    THEN SubSeq(s, 1, pos)
    ELSE SubSeq(s, 1, pos) \o SubSeq(s, pos + n + 1, Len(s))

\* s.find_first_not_of(set)
find_first_not_of(s, set) ==
    LET hits == {i \in 0..(Len(s) - 1) : At(s, i) \notin set}
    IN  IF hits = {} THEN npos ELSE CHOOSE i \in hits : \A j \in hits : i <= j

\* s.find_last_not_of(set)
find_last_not_of(s, set) ==
    LET hits == {i \in 0..(Len(s) - 1) : At(s, i) \notin set}
    IN  IF hits = {} THEN npos ELSE CHOOSE i \in hits : \A j \in hits : i >= j

\* s.find(pat)
find(s, pat) ==
    LET hits == {i \in 0..(Len(s) - Len(pat)) : SubSeq(s, i + 1, i + Len(pat)) = pat}
    IN  IF hits = {} THEN npos ELSE CHOOSE i \in hits : \A j \in hits : i <= j

\* the characters trim() strips: " \t\r\n"
TrimChars == {" ", "\t", "\r", "\n"}

\* the characters std::isspace accepts, which operator>> splits tokens on
\* (the vertical tab has no TLA+ string escape and is left out)
SpaceChars == {" ", "\t", "\n", "\r", "\f"}

trim(s) ==
    LET a == erase(s, 0, find_first_not_of(s, TrimChars))
    IN  erase(a, find_last_not_of(a, TrimChars) + 1, npos)

\* the tokens `iss >> token` extracts, in order
RECURSIVE Tokens(_)
Tokens(s) ==
    LET a == find_first_not_of(s, SpaceChars)
    IN  IF a = npos THEN <<>>
        ELSE LET rest == substr(s, a)
                 sp   == {i \in 0..(Len(rest) - 1) : At(rest, i) \in SpaceChars}
                 e    == IF sp = {} THEN Len(rest)
                         ELSE CHOOSE i \in sp : \A j \in sp : i <= j
             IN  <<SubSeq(rest, 1, e)>> \o Tokens(substr(rest, e))

UpperOf == [c \in {"a","b","c","d","e","f","g","h","i","j","k","l","m",
                   "n","o","p","q","r","s","t","u","v","w","x","y","z"} |->
              CASE c = "a" -> "A" [] c = "b" -> "B" [] c = "c" -> "C" [] c = "d" -> "D"
                [] c = "e" -> "E" [] c = "f" -> "F" [] c = "g" -> "G" [] c = "h" -> "H"
                [] c = "i" -> "I" [] c = "j" -> "J" [] c = "k" -> "K" [] c = "l" -> "L"
                [] c = "m" -> "M" [] c = "n" -> "N" [] c = "o" -> "O" [] c = "p" -> "P"
                [] c = "q" -> "Q" [] c = "r" -> "R" [] c = "s" -> "S" [] c = "t" -> "T"
                [] c = "u" -> "U" [] c = "v" -> "V" [] c = "w" -> "W" [] c = "x" -> "X"
                [] c = "y" -> "Y" [] c = "z" -> "Z"]

toupper(c) == IF c \in DOMAIN UpperOf THEN UpperOf[c] ELSE c

(***************************************************************************)
(* Number conversions                                                      *)
(***************************************************************************)
Digits == <<"0", "1", "2", "3", "4", "5", "6", "7", "8", "9">>

IsDigit(c) == \E d \in 1..10 : Digits[d] = c

DigitVal(c) == (CHOOSE d \in 1..10 : Digits[d] = c) - 1

\* std::to_string(int)
RECURSIVE NatToString(_)
NatToString(n) ==
    IF n < 10 THEN Digits[n + 1]
    ELSE NatToString(n \div 10) \o Digits[(n % 10) + 1]

to_string(n) == IF n < 0 THEN "-" \o NatToString(-n) ELSE NatToString(n)

\* length of the longest prefix of s made of decimal digits
RECURSIVE DigitRun(_)
DigitRun(s) ==
    IF Len(s) > 0 /\ IsDigit(At(s, 0)) THEN 1 + DigitRun(substr(s, 1)) ELSE 0

RECURSIVE DigitsValue(_)
DigitsValue(s) ==
    IF Len(s) = 0 THEN 0
    ELSE 10 * DigitsValue(SubSeq(s, 1, Len(s) - 1)) + DigitVal(At(s, Len(s) - 1))

RECURSIVE Pow10(_)
Pow10(k) == IF k = 0 THEN 1 ELSE 10 * Pow10(k - 1)

\* std::stod on a token value of the form [+-]digits[.digits]: the longest
\* such prefix is converted; ok = FALSE is std::invalid_argument (no
\* conversion could be performed).  The value is the exact rational num/den.
stod(val) ==
    LET neg   == Len(val) > 0 /\ At(val, 0) = "-"
        sgn   == Len(val) > 0 /\ At(val, 0) \in {"-", "+"}
        body  == IF sgn THEN substr(val, 1) ELSE val
        ni    == DigitRun(body)
        after == substr(body, ni)
        dot   == Len(after) > 0 /\ At(after, 0) = "."
        nf    == IF dot THEN DigitRun(substr(after, 1)) ELSE 0
        mag   == DigitsValue(SubSeq(body, 1, ni)) * Pow10(nf)
                 + (IF dot THEN DigitsValue(SubSeq(after, 2, nf + 1)) ELSE 0)
    IN  [ok  |-> ni + nf > 0,
         num |-> IF neg THEN -mag ELSE mag,
         den |-> Pow10(nf)]

\* int(x) for x = a/b with b > 0: truncation toward zero
TruncDiv(a, b) == IF a >= 0 THEN a \div b ELSE -((-a) \div b)

\* int(old_F * ov.feedrate_percent / 100.0 + 0.5)
ScaleFeedrate(old_F, pct) ==
    TruncDiv(2 * old_F.num * pct + 100 * old_F.den, 200 * old_F.den)

(***************************************************************************)
(* Command Transformer: modify_line                                        *)
(***************************************************************************)
\* Overrides with no option given (struct defaults)
NoOverrides ==
    [feedrate_percent |-> -1, bed_temp |-> -1, hotend_temp |-> -1, debug |-> FALSE]

\* line.find("M140") == 0 || line.find("M190") == 0
IsBedLine(line) == find(line, "M140") = 0 \/ find(line, "M190") = 0

\* line.find("M104") == 0 || line.find("M109") == 0
IsHotendLine(line) == find(line, "M104") = 0 \/ find(line, "M109") = 0

\* the text one iteration of the token loop appends to result
TokenOut(token, line, ov) ==
    IF Len(token) < 2 THEN " " \o token
    ELSE LET code == toupper(At(token, 0))
             val  == substr(token, 1)
         IN  IF code = "F" /\ ov.feedrate_percent > 0
             THEN " F" \o to_string(ScaleFeedrate(stod(val), ov.feedrate_percent))
             ELSE IF code = "S" /\ ov.bed_temp >= 0 /\ IsBedLine(line)
             THEN " S" \o to_string(ov.bed_temp)
             ELSE IF code = "S" /\ ov.hotend_temp >= 0 /\ IsHotendLine(line)
             THEN " S" \o to_string(ov.hotend_temp)
             ELSE " " \o token

\* std::stod(val) throws std::invalid_argument in this iteration
TokenThrows(token) ==
    /\ Len(token) >= 2
    /\ toupper(At(token, 0)) = "F"
    /\ ~stod(substr(token, 1)).ok

\* result after the token loop has consumed toks
RECURSIVE TokenLoop(_, _, _)
TokenLoop(toks, line, ov) ==
    IF toks = <<>> THEN ""
    ELSE TokenOut(Head(toks), line, ov) \o TokenLoop(Tail(toks), line, ov)

\* modify_line leaves by an uncaught exception
modify_line_throws(orig) ==
    LET line == trim(orig)
        toks == Tokens(line)
    IN  /\ ~(line = "" \/ At(line, 0) = ";")
        /\ \E i \in DOMAIN toks : TokenThrows(toks[i])

\* the string modify_line returns (when it returns)
modify_line(orig, ov) ==
    LET line == trim(orig)
    IN  IF line = "" \/ At(line, 0) = ";" THEN orig
        ELSE LET result == TokenLoop(Tokens(line), line, ov)
             IN  IF result # (" " \o line) THEN trim(result) ELSE orig

(***************************************************************************)
(* Line Framer                                                             *)
(***************************************************************************)
\* the ASCII characters of codes 32..95 in order
AsciiFrom32 ==
    " !\"#$%&'()*+,-./0123456789:;<=>?@ABCDEFGHIJKLMNOPQRSTUVWXYZ[\\]^_"

\* the ASCII characters of codes 97..126 in order
AsciiFrom97 == "abcdefghijklmnopqrstuvwxyz{|}~"

\* the code of every character of the model
AsciiCode ==
    [c \in {"\t", "\n", "\f", "\r"}
            \cup {At(AsciiFrom32, i) : i \in 0..(Len(AsciiFrom32) - 1)}
            \cup {At(AsciiFrom97, i) : i \in 0..(Len(AsciiFrom97) - 1)} |->
        CASE c = "\t" -> 9
          [] c = "\n" -> 10
          [] c = "\f" -> 12
          [] c = "\r" -> 13
          [] find(AsciiFrom32, c) # npos -> 32 + find(AsciiFrom32, c)
          [] find(AsciiFrom97, c) # npos -> 97 + find(AsciiFrom97, c)]

\* (unsigned char)c
Ord(c) == AsciiCode[c]

\* a ^ b on unsigned char
RECURSIVE BitXor(_, _)
BitXor(a, b) ==
    IF a = 0 THEN b
    ELSE IF b = 0 THEN a
    ELSE (((a % 2) + (b % 2)) % 2) + 2 * BitXor(a \div 2, b \div 2)

RECURSIVE AddFold(_)
AddFold(s) ==
    IF Len(s) = 0 THEN 0
    ELSE (AddFold(SubSeq(s, 1, Len(s) - 1)) + Ord(At(s, Len(s) - 1))) % 256

\* for (char c : payload) cs ^= (unsigned char)c, starting from cs = 0
RECURSIVE XorFold(_)
XorFold(s) ==
    IF Len(s) = 0 THEN 0
    ELSE BitXor(XorFold(SubSeq(s, 1, Len(s) - 1)), Ord(At(s, Len(s) - 1)))

Payload(n, modified) == "N" \o to_string(n) \o " " \o modified

\* cmd = payload + "*" + std::to_string((int)cs) + "\n"
Frame(n, modified) ==
    LET payload == Payload(n, modified)
    IN  payload \o "*" \o to_string(XorFold(payload)) \o "\n"

(***************************************************************************)
(* Protocol Session and Stream Driver: the streaming loop of main          *)
(***************************************************************************)
\* bound on the number of read_line calls of one run
MaxReads == 6

\* bound on the response lines waiting unread in the channel's input buffer
MaxBuf == 2

\* Overrides with all three options given (and --debug)
AllOverrides ==
    [feedrate_percent |-> 150, bed_temp |-> 70, hotend_temp |-> 215, debug |-> TRUE]

\* the runs of the model: a G-code file and the options it is streamed with
Scenarios ==
    { [src |-> <<"; comment", "", "G1 X10">>, ov |-> NoOverrides],
      [src |-> <<"G1 X1 F100", "G1 X2 F100">>, ov |-> NoOverrides],
      [src |-> <<"M140 S60", "\f;c", " G1  F1201\r", "M104 S200">>, ov |-> AllOverrides],
      [src |-> <<"M117 Fan on">>, ov |-> AllOverrides],
      [src |-> <<>>, ov |-> NoOverrides] }

\* the response lines the firmware may send
Responses == {"ok", "Resend: 1", "wait", ""}

ResendLimitLate == 2 + 2

\* the resend streak at which the session recovers (++resend_streak >= 3)
ResendLimit == 3

NextLineNumSkip(n) == n + 2

\* line_num++ on an Ok
NextLineNum(n) == n + 1

IsSkippedBlankOnly(modified) == modified = ""

\* if (modified.empty() || modified[0] == ';') continue;
IsSkipped(modified) == modified = "" \/ At(modified, 0) = ";"

FlushCommandFramed == "N1 M400*38\n"

\* the final synchronization command, written unframed
FlushCommand == "M400\n"

VARIABLES
    src,            \* the lines of the G-code file, as std::getline yields them
    ov,             \* Overrides parsed from the command line
    idx,            \* number of lines the streaming pass has read from f
    total,          \* int total
    sent,           \* int sent
    line_num,       \* int line_num
    resend_streak,  \* int resend_streak
    cmd,            \* std::string cmd: the frame built for the current command
    pc,             \* where main is: "stream", "await", "flush", "done", "failed", "aborted"
    fd_open,        \* fd has not been closed
    exit_code,      \* process exit status, -1 while running
    arrived,        \* number of response lines the channel has received so far
    inbuf,          \* the received lines not read yet, by their arrival numbers
    trace,          \* the system calls made on fd, in order
    t_orig,         \* transformer harness: the line given to modify_line
    t_ov,           \* transformer harness: the Overrides given to modify_line
    t_ret,          \* transformer harness: what modify_line gave back
    rl,             \* reader harness: one activation of read_line (its locals
                    \* s, ch, n, the time since start, where it is, its result)
    ack             \* classifier harness: a response line and what the Ack
                    \* loop takes it for

vars == <<src, ov, idx, total, sent, line_num, resend_streak, cmd, pc, fd_open,
          exit_code, arrived, inbuf, trace, t_orig, t_ov, t_ret, rl, ack>>

harness == <<t_orig, t_ov, t_ret, rl, ack>>

\* one system call on fd.  n is the byte count of a write; for a read_line
\* it is the arrival number of the line returned, 0 when read_line gave up
\* and returned the empty sentinel
Call(op, data, n) == [op |-> op, data |-> data, n |-> n]

\* the first pass over the file: the number of eligible lines
RECURSIVE CountCommands(_)
CountCommands(lines) ==
    IF lines = <<>> THEN 0
    ELSE LET tmp == trim(Head(lines))
         IN  (IF tmp # "" /\ At(tmp, 0) # ";" THEN 1 ELSE 0) + CountCommands(Tail(lines))

NumReads == Cardinality({i \in DOMAIN trace : trace[i].op = "read"})

ClassifyResendFirst(resp) ==
    IF resp = "" THEN "Timeout"
    ELSE IF find(resp, "Resend") # npos \/ find(resp, "rs") # npos THEN "Resend"
    ELSE IF find(resp, "ok") # npos THEN "Ok"
    ELSE "Unrecognized"

\* how the Ack loop of a command treats a response line
Classify(resp) ==
    IF resp = "" THEN "Timeout"
    ELSE IF find(resp, "ok") # npos THEN "Ok"
    ELSE IF find(resp, "Resend") # npos \/ find(resp, "rs") # npos THEN "Resend"
    ELSE "Unrecognized"

\* transformer harness: modify_line has not been called
NotCalled == [status |-> "none", value |-> ""]

\* classifier harness: no response line has been classified
NotClassified == [resp |-> "", class |-> "none"]

\* reader harness: read_line at its entry: s empty, start = now
ReaderEntry == [pc |-> "read", s |-> "", ch |-> "", n |-> 0, elapsed |-> 0, ret |-> ""]

\* the state at the top of the streaming loop
Init ==
    /\ \E sc \in Scenarios : src = sc.src /\ ov = sc.ov
    /\ idx = 0
    /\ total = CountCommands(src)
    /\ sent = 0
    /\ line_num = 1
    /\ resend_streak = 0
    /\ cmd = ""
    /\ pc = "stream"
    /\ fd_open = TRUE
    /\ exit_code = -1
    /\ arrived = 0
    /\ inbuf = <<>>
    /\ trace = <<>>
    /\ t_orig = ""
    /\ t_ov = NoOverrides
    /\ t_ret = NotCalled
    /\ rl = ReaderEntry
    /\ ack = NotClassified

\* the firmware's next response line reaches the input buffer of fd (what
\* the line says is settled when it is read)
Arrive ==
    /\ fd_open
    /\ Len(inbuf) < MaxBuf
    /\ arrived' = arrived + 1
    /\ inbuf' = Append(inbuf, arrived + 1)
    /\ UNCHANGED <<src, ov, idx, total, sent, line_num, resend_streak, cmd, pc,
                   fd_open, exit_code, trace>>
    /\ UNCHANGED harness

\* getline yields a line and modify_line throws: std::terminate ends the process
Abort ==
    /\ pc = "stream"
    /\ idx < Len(src)
    /\ modify_line_throws(src[idx + 1])
    /\ idx' = idx + 1
    /\ pc' = "aborted"
    /\ fd_open' = FALSE
    /\ exit_code' = 134
    /\ UNCHANGED <<src, ov, total, sent, line_num, resend_streak, cmd, arrived, inbuf,
                   trace>>
    /\ UNCHANGED harness

\* getline yields a line that is empty or a comment after modify_line and trim
SkipLine ==
    /\ pc = "stream"
    /\ idx < Len(src)
    /\ ~modify_line_throws(src[idx + 1])
    /\ IsSkipped(trim(modify_line(src[idx + 1], ov)))
    /\ idx' = idx + 1
    /\ UNCHANGED <<src, ov, total, sent, line_num, resend_streak, cmd, pc, fd_open,
                   exit_code, arrived, inbuf, trace>>
    /\ UNCHANGED harness

SendFrameUncounted ==
    /\ pc = "stream"
    /\ idx < Len(src)
    /\ ~modify_line_throws(src[idx + 1])
    /\ LET modified == trim(modify_line(src[idx + 1], ov))
       IN  /\ ~IsSkipped(modified)
           /\ cmd' = Frame(line_num, modified)
    /\ trace' = Append(trace, Call("write", cmd', Len(cmd')))
    /\ idx' = idx + 1
    /\ pc' = "await"
    /\ UNCHANGED <<src, ov, total, sent, line_num, resend_streak, fd_open, exit_code,
                   arrived, inbuf>>
    /\ UNCHANGED harness

\* getline yields a command: its frame is built and written
SendFrame ==
    /\ pc = "stream"
    /\ idx < Len(src)
    /\ ~modify_line_throws(src[idx + 1])
    /\ LET modified == trim(modify_line(src[idx + 1], ov))
       IN  /\ ~IsSkipped(modified)
           /\ cmd' = Frame(line_num, modified)
    /\ trace' = Append(trace, Call("write", cmd', Len(cmd')))
    /\ sent' = sent + 1
    /\ idx' = idx + 1
    /\ pc' = "await"
    /\ UNCHANGED <<src, ov, total, line_num, resend_streak, fd_open, exit_code,
                   arrived, inbuf>>
    /\ UNCHANGED harness

AckTimeoutKeepsWaiting ==
    /\ pc = "await"
    /\ NumReads < MaxReads
    /\ \/ /\ inbuf = <<>>
          /\ inbuf' = inbuf
          /\ trace' = Append(trace, Call("read", "", 0))
       \/ /\ inbuf # <<>>
          /\ "" \in Responses
          /\ inbuf' = Tail(inbuf)
          /\ trace' = Append(trace, Call("read", "", Head(inbuf)))
    /\ UNCHANGED <<src, ov, idx, total, sent, line_num, resend_streak, cmd, pc,
                   fd_open, exit_code, arrived>>
    /\ UNCHANGED harness

\* read_line while a command awaits its acknowledgment returns "": ten
\* seconds without a complete line, or an empty line
AckTimeout ==
    /\ pc = "await"
    /\ NumReads < MaxReads
    /\ \/ /\ inbuf = <<>>
          /\ inbuf' = inbuf
          /\ trace' = trace \o <<Call("read", "", 0), Call("close", "", 0)>>
       \/ /\ inbuf # <<>>
          /\ "" \in Responses
          /\ inbuf' = Tail(inbuf)
          /\ trace' = trace \o <<Call("read", "", Head(inbuf)), Call("close", "", 0)>>
    /\ fd_open' = FALSE
    /\ exit_code' = 1
    /\ pc' = "failed"
    /\ UNCHANGED <<src, ov, idx, total, sent, line_num, resend_streak, cmd, arrived>>
    /\ UNCHANGED harness

\* read_line returns a line containing "ok"
AckOk ==
    /\ pc = "await"
    /\ NumReads < MaxReads
    /\ inbuf # <<>>
    /\ \E resp \in Responses :
          /\ Classify(resp) = "Ok"
          /\ trace' = Append(trace, Call("read", resp, Head(inbuf)))
    /\ inbuf' = Tail(inbuf)
    /\ line_num' = NextLineNum(line_num)
    /\ resend_streak' = 0
    /\ pc' = "stream"
    /\ UNCHANGED <<src, ov, idx, total, sent, cmd, fd_open, exit_code, arrived>>
    /\ UNCHANGED harness

AckResendTwice ==
    /\ pc = "await"
    /\ NumReads < MaxReads
    /\ inbuf # <<>>
    /\ resend_streak + 1 < ResendLimit
    /\ \E resp \in Responses :
          /\ Classify(resp) = "Resend"
          /\ trace' = trace \o <<Call("read", resp, Head(inbuf)),
                                 Call("write", cmd, Len(cmd)),
                                 Call("write", cmd, Len(cmd))>>
    /\ resend_streak' = resend_streak + 1
    /\ inbuf' = Tail(inbuf)
    /\ UNCHANGED <<src, ov, idx, total, sent, line_num, cmd, pc, fd_open, exit_code,
                   arrived>>
    /\ UNCHANGED harness

\* read_line returns a resend request below the limit: cmd is written again
AckResend ==
    /\ pc = "await"
    /\ NumReads < MaxReads
    /\ inbuf # <<>>
    /\ resend_streak + 1 < ResendLimit
    /\ \E resp \in Responses :
          /\ Classify(resp) = "Resend"
          /\ trace' = trace \o <<Call("read", resp, Head(inbuf)),
                                 Call("write", cmd, Len(cmd))>>
    /\ resend_streak' = resend_streak + 1
    /\ inbuf' = Tail(inbuf)
    /\ UNCHANGED <<src, ov, idx, total, sent, line_num, cmd, pc, fd_open, exit_code,
                   arrived>>
    /\ UNCHANGED harness

\* what emergency_reset does on fd: an 11-byte write of the 10-character
\* literal (its terminating NUL goes out too), then tcflush
emergency_reset == <<Call("write", "M112\nM999\n", 11), Call("tcflush", "", 0)>>

AckRecoverOnSecond ==
    /\ pc = "await"
    /\ NumReads < MaxReads
    /\ inbuf # <<>>
    /\ resend_streak + 1 >= 2
    /\ \E resp \in Responses :
          /\ Classify(resp) = "Resend"
          /\ trace' = trace \o <<Call("read", resp, Head(inbuf))>> \o emergency_reset
                            \o <<Call("write", cmd, Len(cmd))>>
    /\ line_num' = 1
    /\ resend_streak' = 0
    /\ inbuf' = <<>>
    /\ UNCHANGED <<src, ov, idx, total, sent, cmd, pc, fd_open, exit_code, arrived>>
    /\ UNCHANGED harness

AckRecoverKeepsInput ==
    /\ pc = "await"
    /\ NumReads < MaxReads
    /\ inbuf # <<>>
    /\ resend_streak + 1 >= ResendLimit
    /\ \E resp \in Responses :
          /\ Classify(resp) = "Resend"
          /\ trace' = trace \o <<Call("read", resp, Head(inbuf))>> \o emergency_reset
                            \o <<Call("write", cmd, Len(cmd))>>
    /\ line_num' = 1
    /\ resend_streak' = 0
    /\ inbuf' = Tail(inbuf)
    /\ UNCHANGED <<src, ov, idx, total, sent, cmd, pc, fd_open, exit_code, arrived>>
    /\ UNCHANGED harness

\* read_line returns the resend request that reaches the limit: reset,
\* input buffer flushed, counters reset, cmd written again
AckRecover ==
    /\ pc = "await"
    /\ NumReads < MaxReads
    /\ inbuf # <<>>
    /\ resend_streak + 1 >= ResendLimit
    /\ \E resp \in Responses :
          /\ Classify(resp) = "Resend"
          /\ trace' = trace \o <<Call("read", resp, Head(inbuf))>> \o emergency_reset
                            \o <<Call("write", cmd, Len(cmd))>>
    /\ line_num' = 1
    /\ resend_streak' = 0
    /\ inbuf' = <<>>
    /\ UNCHANGED <<src, ov, idx, total, sent, cmd, pc, fd_open, exit_code, arrived>>
    /\ UNCHANGED harness

AckIgnoreAdvances ==
    /\ pc = "await"
    /\ NumReads < MaxReads
    /\ inbuf # <<>>
    /\ \E resp \in Responses :
          /\ Classify(resp) = "Unrecognized"
          /\ trace' = Append(trace, Call("read", resp, Head(inbuf)))
    /\ inbuf' = Tail(inbuf)
    /\ line_num' = line_num + 1
    /\ pc' = "stream"
    /\ UNCHANGED <<src, ov, idx, total, sent, resend_streak, cmd, fd_open, exit_code,
                   arrived>>
    /\ UNCHANGED harness

AckIgnoreClearsStreak ==
    /\ pc = "await"
    /\ NumReads < MaxReads
    /\ inbuf # <<>>
    /\ \E resp \in Responses :
          /\ Classify(resp) = "Unrecognized"
          /\ trace' = Append(trace, Call("read", resp, Head(inbuf)))
    /\ inbuf' = Tail(inbuf)
    /\ resend_streak' = 0
    /\ UNCHANGED <<src, ov, idx, total, sent, line_num, cmd, pc, fd_open, exit_code,
                   arrived>>
    /\ UNCHANGED harness

\* read_line returns a line that is neither: the loop reads again
AckIgnore ==
    /\ pc = "await"
    /\ NumReads < MaxReads
    /\ inbuf # <<>>
    /\ \E resp \in Responses :
          /\ Classify(resp) = "Unrecognized"
          /\ trace' = Append(trace, Call("read", resp, Head(inbuf)))
    /\ inbuf' = Tail(inbuf)
    /\ UNCHANGED <<src, ov, idx, total, sent, line_num, resend_streak, cmd, pc,
                   fd_open, exit_code, arrived>>
    /\ UNCHANGED harness

\* getline reaches the end of the file: M400 is written
Finish ==
    /\ pc = "stream"
    /\ idx = Len(src)
    /\ trace' = Append(trace, Call("write", FlushCommand, Len(FlushCommand)))
    /\ pc' = "flush"
    /\ UNCHANGED <<src, ov, idx, total, sent, line_num, resend_streak, cmd, fd_open,
                   exit_code, arrived, inbuf>>
    /\ UNCHANGED harness

FlushDiscardGivesUp ==
    /\ pc = "flush"
    /\ NumReads < MaxReads
    /\ \/ /\ inbuf = <<>>
          /\ inbuf' = inbuf
          /\ trace' = trace \o <<Call("read", "", 0), Call("close", "", 0)>>
          /\ pc' = "failed" /\ fd_open' = FALSE /\ exit_code' = 1
       \/ /\ inbuf # <<>>
          /\ inbuf' = Tail(inbuf)
          /\ \E resp \in Responses :
                /\ find(resp, "ok") = npos
                /\ trace' = Append(trace, Call("read", resp, Head(inbuf)))
          /\ UNCHANGED <<pc, fd_open, exit_code>>
    /\ UNCHANGED <<src, ov, idx, total, sent, line_num, resend_streak, cmd, arrived>>
    /\ UNCHANGED harness

\* the flush loop reads a line without "ok" (or read_line gives up with ""):
\* the loop reads again
FlushDiscard ==
    /\ pc = "flush"
    /\ NumReads < MaxReads
    /\ \/ /\ inbuf = <<>>
          /\ inbuf' = inbuf
          /\ trace' = Append(trace, Call("read", "", 0))
       \/ /\ inbuf # <<>>
          /\ inbuf' = Tail(inbuf)
          /\ \E resp \in Responses :
                /\ find(resp, "ok") = npos
                /\ trace' = Append(trace, Call("read", resp, Head(inbuf)))
    /\ UNCHANGED <<src, ov, idx, total, sent, line_num, resend_streak, cmd, pc,
                   fd_open, exit_code, arrived>>
    /\ UNCHANGED harness

\* the flush loop reads a line containing "ok": close and return 0
FlushOk ==
    /\ pc = "flush"
    /\ NumReads < MaxReads
    /\ inbuf # <<>>
    /\ \E resp \in Responses :
          /\ find(resp, "ok") # npos
          /\ trace' = trace \o <<Call("read", resp, Head(inbuf)), Call("close", "", 0)>>
    /\ inbuf' = Tail(inbuf)
    /\ fd_open' = FALSE
    /\ exit_code' = 0
    /\ pc' = "done"
    /\ UNCHANGED <<src, ov, idx, total, sent, line_num, resend_streak, cmd, arrived>>
    /\ UNCHANGED harness

Next ==
    \/ Arrive
    \/ Abort
    \/ SkipLine
    \/ SendFrame
    \/ AckTimeout
    \/ AckOk
    \/ AckResend
    \/ AckRecover
    \/ AckIgnore
    \/ Finish
    \/ FlushDiscard
    \/ FlushOk

Spec == Init /\ [][Next]_vars

(***************************************************************************)
(* Transformer harness: modify_line applied to generated lines             *)
(***************************************************************************)
\* bound on the number of tokens of a generated line
MaxTokens == 3

\* the tokens generated lines are made of
TTokens == {"G1", ";", "M140", "S60", "f12", "Fan"}

\* the whitespace between two tokens of a generated line
TSeps == {" ", "  "}

\* the whitespace before the first and after the last token: none, or an
\* indented line of a file with CR LF line ends
TPads == {<<"", "">>, <<" \t", "\r">>}

\* the Overrides the harness calls modify_line with
TOverrides ==
    { NoOverrides,
      AllOverrides }

\* the texts made of k tokens and the whitespace between them
RECURSIVE Joined(_)
Joined(k) ==
    IF k = 0 THEN {""}
    ELSE IF k = 1 THEN TTokens
    ELSE {a \o sep \o t : a \in Joined(k - 1), sep \in TSeps, t \in TTokens}

TLines ==
    {p[1] \o b \o p[2] : p \in TPads, b \in UNION {Joined(k) : k \in 0..MaxTokens}}

InitT ==
    /\ src = <<>>
    /\ ov = NoOverrides
    /\ idx = 0
    /\ total = 0
    /\ sent = 0
    /\ line_num = 1
    /\ resend_streak = 0
    /\ cmd = ""
    /\ pc = "harness"
    /\ fd_open = FALSE
    /\ exit_code = -1
    /\ arrived = 0
    /\ inbuf = <<>>
    /\ trace = <<>>
    /\ t_orig \in TLines
    /\ t_ov \in TOverrides
    /\ t_ret = NotCalled
    /\ rl = ReaderEntry
    /\ ack = NotClassified

session == <<src, ov, idx, total, sent, line_num, resend_streak, cmd, pc, fd_open,
             exit_code, arrived, inbuf, trace>>

\* modify_line(t_orig, t_ov) returns
TransformReturns ==
    /\ pc = "harness"
    /\ t_ret = NotCalled
    /\ ~modify_line_throws(t_orig)
    /\ t_ret' = [status |-> "returned", value |-> modify_line(t_orig, t_ov)]
    /\ UNCHANGED <<t_orig, t_ov, rl, ack>>
    /\ UNCHANGED session

\* modify_line(t_orig, t_ov) throws
TransformThrows ==
    /\ pc = "harness"
    /\ t_ret = NotCalled
    /\ modify_line_throws(t_orig)
    /\ t_ret' = [status |-> "threw", value |-> ""]
    /\ UNCHANGED <<t_orig, t_ov, rl, ack>>
    /\ UNCHANGED session

NextT == TransformReturns \/ TransformThrows

SpecT == InitT /\ [][NextT]_vars

(***************************************************************************)
(* Feedrate harness: modify_line applied to "G1 F<v>" under --feedrate=<p> *)
(***************************************************************************)
\* bound on the magnitude of the feedrate values of the generated lines
MaxFeed == 12

\* the integer feedrate values: a range around zero and the F1201 of the
\* rounding example
FValues == ((0 - MaxFeed)..MaxFeed) \cup {1200, 1201}

\* the values of --feedrate=
FPercents == {33, 50, 100, 150}

\* the line the harness hands to modify_line for the value v
FLine(v) == "G1 F" \o to_string(v)

\* Overrides after --feedrate=p alone
FeedrateOnly(p) == [NoOverrides EXCEPT !.feedrate_percent = p]

InitF ==
    /\ src = <<>>
    /\ ov = NoOverrides
    /\ idx = 0
    /\ total = 0
    /\ sent = 0
    /\ line_num = 1
    /\ resend_streak = 0
    /\ cmd = ""
    /\ pc = "harness"
    /\ fd_open = FALSE
    /\ exit_code = -1
    /\ arrived = 0
    /\ inbuf = <<>>
    /\ trace = <<>>
    /\ t_orig \in {FLine(v) : v \in FValues}
    /\ t_ov \in {FeedrateOnly(p) : p \in FPercents}
    /\ t_ret = NotCalled
    /\ rl = ReaderEntry
    /\ ack = NotClassified

NextF == TransformReturns

SpecF == InitF /\ [][NextF]_vars

(***************************************************************************)
(* Reader harness: read_line, one read(fd, &ch, 1) at a time               *)
(***************************************************************************)
\* bound on the length of the line read_line assembles
MaxLine == 3

\* the bytes the channel may deliver
ReadBytes == {"o", "k", "\r", "\n"}

\* time is counted in units of VTIME (2 s): a read that returns 0 has waited
\* one unit, and 10 s are five of them
TimeoutUnits == 5

\* the clock is followed up to one unit past the timeout
Later(t, d) == IF t + d > TimeoutUnits + 1 THEN TimeoutUnits + 1 ELSE t + d

InitR ==
    /\ src = <<>>
    /\ ov = NoOverrides
    /\ idx = 0
    /\ total = 0
    /\ sent = 0
    /\ line_num = 1
    /\ resend_streak = 0
    /\ cmd = ""
    /\ pc = "harness"
    /\ fd_open = TRUE
    /\ exit_code = -1
    /\ arrived = 0
    /\ inbuf = <<>>
    /\ trace = <<>>
    /\ t_orig = ""
    /\ t_ov = NoOverrides
    /\ t_ret = NotCalled
    /\ rl = ReaderEntry
    /\ ack = NotClassified

\* ssize_t n = read(fd, &ch, 1): the channel delivers a byte, or nothing
\* within VTIME, or the call fails; ch is written only when n > 0
ReadByte ==
    /\ pc = "harness"
    /\ rl.pc = "read"
    /\ \/ \E c \in ReadBytes : \E d \in {0, 1} :
             /\ c \in {"\r", "\n"} \/ Len(rl.s) < MaxLine
             /\ rl' = [rl EXCEPT !.pc = "test", !.n = 1, !.ch = c,
                                 !.elapsed = Later(rl.elapsed, d)]
       \/ rl' = [rl EXCEPT !.pc = "test", !.n = 0, !.elapsed = Later(rl.elapsed, 1)]
       \/ \E d \in {0, 1} :
             rl' = [rl EXCEPT !.pc = "test", !.n = -1, !.elapsed = Later(rl.elapsed, d)]
    /\ UNCHANGED <<t_orig, t_ov, t_ret, ack>>
    /\ UNCHANGED session

\* the body of the loop after read has returned
TestByte ==
    /\ pc = "harness"
    /\ rl.pc = "test"
    /\ rl' =
          IF rl.n > 0
          THEN IF rl.ch = "\n"
               THEN [rl EXCEPT !.pc = "returned",
                               !.ret = IF rl.s # "" /\ At(rl.s, Len(rl.s) - 1) = "\r"
                                       THEN SubSeq(rl.s, 1, Len(rl.s) - 1)
                                       ELSE rl.s]
               ELSE [rl EXCEPT !.pc = "read",
                               !.s = IF rl.ch # "\r" THEN rl.s \o rl.ch ELSE rl.s]
          ELSE IF rl.n = 0
          THEN IF rl.elapsed > TimeoutUnits
               THEN [rl EXCEPT !.pc = "returned", !.ret = ""]
               ELSE [rl EXCEPT !.pc = "read"]
          ELSE [rl EXCEPT !.pc = "read"]
    /\ UNCHANGED <<t_orig, t_ov, t_ret, ack>>
    /\ UNCHANGED session

NextR == ReadByte \/ TestByte

\* the process is single-threaded and keeps running: whichever step of
\* read_line is next is eventually taken
SpecR == InitR /\ [][NextR]_vars /\ WF_vars(ReadByte) /\ WF_vars(TestByte)

(***************************************************************************)
(* Classifier harness: the tests of the Ack loop applied to generated      *)
(* response lines                                                          *)
(***************************************************************************)
\* bound on the number of fragments a generated response line is made of
MaxFrags == 3

\* the fragments of the generated response lines
CFrags == {"ok", "Resend", "rs", "o", "k", "r", "s", " ", "wait"}

\* the texts made of up to k fragments
RECURSIVE FragLines(_)
FragLines(k) ==
    IF k = 0 THEN {""}
    ELSE FragLines(k - 1) \cup {a \o f : a \in FragLines(k - 1), f \in CFrags}

InitC ==
    /\ src = <<>>
    /\ ov = NoOverrides
    /\ idx = 0
    /\ total = 0
    /\ sent = 0
    /\ line_num = 1
    /\ resend_streak = 0
    /\ cmd = ""
    /\ pc = "harness"
    /\ fd_open = TRUE
    /\ exit_code = -1
    /\ arrived = 0
    /\ inbuf = <<>>
    /\ trace = <<>>
    /\ t_orig = ""
    /\ t_ov = NoOverrides
    /\ t_ret = NotCalled
    /\ rl = ReaderEntry
    /\ ack \in {[resp |-> l, class |-> "none"] : l \in FragLines(MaxFrags)}

\* the Ack loop tests resp
ClassifyResponse ==
    /\ pc = "harness"
    /\ ack.class = "none"
    /\ ack' = [ack EXCEPT !.class = Classify(ack.resp)]
    /\ UNCHANGED <<t_orig, t_ov, t_ret, rl>>
    /\ UNCHANGED session

NextC == ClassifyResponse

SpecC == InitC /\ [][NextC]_vars

(***************************************************************************)
(* The streaming loop against a firmware that answers every frame with a   *)
(* resend request.  Runs of any length are followed: trace keeps the calls *)
(* of the latest step only, and arrived counts the answers up to a bound.  *)
(***************************************************************************)
\* bound up to which the answers of the firmware are counted
MaxCounted == 7

\* the lines the sources of these runs are made of
ULines == {"; c", "G28", "G1 X1 F100", "M140 S60", " G1  F1201\r", "M104 S200"}

\* the sources: two lines, one command at least
USources == {q \in {<<a, b>> : a \in ULines, b \in ULines} : CountCommands(q) > 0}

Counted(k) == IF k < MaxCounted THEN k + 1 ELSE k

InitU ==
    /\ src \in USources
    /\ ov \in TOverrides
    /\ idx = 0
    /\ total = CountCommands(src)
    /\ sent = 0
    /\ line_num = 1
    /\ resend_streak = 0
    /\ cmd = ""
    /\ pc = "stream"
    /\ fd_open = TRUE
    /\ exit_code = -1
    /\ arrived = 0
    /\ inbuf = <<>>
    /\ trace = <<>>
    /\ t_orig = ""
    /\ t_ov = NoOverrides
    /\ t_ret = NotCalled
    /\ rl = ReaderEntry
    /\ ack = NotClassified

ResendLoopGivesUp ==
    /\ pc = "await"
    /\ resend_streak + 1 >= ResendLimit
    /\ \E resp \in Responses :
          /\ Classify(resp) = "Resend"
          /\ trace' = <<Call("read", resp, Counted(arrived))>> \o emergency_reset
                       \o <<Call("close", "", 0)>>
    /\ arrived' = Counted(arrived)
    /\ pc' = "failed"
    /\ fd_open' = FALSE
    /\ exit_code' = 1
    /\ UNCHANGED <<src, ov, idx, total, sent, line_num, resend_streak, cmd, inbuf>>
    /\ UNCHANGED harness

\* the firmware's answer is read, it is a resend request below the limit:
\* cmd is written again
ResendLoopResend ==
    /\ pc = "await"
    /\ resend_streak + 1 < ResendLimit
    /\ \E resp \in Responses :
          /\ Classify(resp) = "Resend"
          /\ trace' = <<Call("read", resp, Counted(arrived)),
                        Call("write", cmd, Len(cmd))>>
    /\ arrived' = Counted(arrived)
    /\ resend_streak' = resend_streak + 1
    /\ UNCHANGED <<src, ov, idx, total, sent, line_num, cmd, pc, fd_open, exit_code,
                   inbuf>>
    /\ UNCHANGED harness

\* the firmware's answer is read, it is the resend request that reaches
\* the limit: reset, counters reset, cmd written again
ResendLoopRecover ==
    /\ pc = "await"
    /\ resend_streak + 1 >= ResendLimit
    /\ \E resp \in Responses :
          /\ Classify(resp) = "Resend"
          /\ trace' = <<Call("read", resp, Counted(arrived))>> \o emergency_reset
                       \o <<Call("write", cmd, Len(cmd))>>
    /\ arrived' = Counted(arrived)
    /\ line_num' = 1
    /\ resend_streak' = 0
    /\ UNCHANGED <<src, ov, idx, total, sent, cmd, pc, fd_open, exit_code, inbuf>>
    /\ UNCHANGED harness

NextU ==
    \/ SkipLine
    \/ SendFrame
    \/ ResendLoopResend
    \/ ResendLoopRecover

\* the process keeps running and the firmware keeps answering: while a
\* command awaits its acknowledgment the next step of the Ack loop is
\* eventually taken
SpecU ==
    InitU /\ [][NextU]_vars /\ WF_vars(ResendLoopResend) /\ WF_vars(ResendLoopRecover)

(***************************************************************************)
(* Observers of a run, used to state the properties below.  They read the  *)
(* system-call trace by the wire grammar                                   *)
(*   "N" <lineNumber> " " <command-text> "*" <checksum> "\n"               *)
(* and the response classes of the protocol, independently of the code     *)
(* that produced the trace.                                                *)
(***************************************************************************)
ObsOk(resp) == \E i \in 1..(Len(resp) - 1) : SubSeq(resp, i, i + 1) = "ok"

ObsResend(resp) ==
    /\ ~ObsOk(resp)
    /\ \/ \E i \in 1..(Len(resp) - 1) : SubSeq(resp, i, i + 1) = "rs"
       \/ \E i \in 1..(Len(resp) - 5) : SubSeq(resp, i, i + 5) = "Resend"

ObsUnrecognized(resp) == resp # "" /\ ~ObsOk(resp) /\ ~ObsResend(resp)

IsRead(e) == e.op = "read"

IsFrameWrite(e) == e.op = "write" /\ Len(e.data) > 0 /\ SubSeq(e.data, 1, 1) = "N"

IsResetWrite(e) == e.op = "write" /\ e.data = "M112\nM999\n"

IsFlushWrite(e) == e.op = "write" /\ \E i \in 1..(Len(e.data) - 3) : SubSeq(e.data, i, i + 3) = "M400"

\* position (1-based) of the last "*" of a frame, 0 if none
StarPos(w) ==
    LET stars == {i \in 1..Len(w) : SubSeq(w, i, i) = "*"}
    IN  IF stars = {} THEN 0 ELSE CHOOSE i \in stars : \A j \in stars : i >= j

\* position (1-based) of the first " " of a frame, 0 if none
SpacePos(w) ==
    LET sp == {i \in 1..Len(w) : SubSeq(w, i, i) = " "}
    IN  IF sp = {} THEN 0 ELSE CHOOSE i \in sp : \A j \in sp : i <= j

AllDigits(t) == Len(t) > 0 /\ \A i \in 1..Len(t) : SubSeq(t, i, i) \in {"0","1","2","3","4","5","6","7","8","9"}

\* the value of a decimal numeral
RECURSIVE Decimal(_)
Decimal(t) ==
    IF Len(t) = 0 THEN 0
    ELSE 10 * Decimal(SubSeq(t, 1, Len(t) - 1))
         + (CHOOSE d \in 0..9 : SubSeq("0123456789", d + 1, d + 1) = SubSeq(t, Len(t), Len(t)))

FrameNumberText(w) == SubSeq(w, 2, SpacePos(w) - 1)

FrameLineNo(w) == Decimal(FrameNumberText(w))

FrameCommand(w) == SubSeq(w, SpacePos(w) + 1, StarPos(w) - 1)

FramePayload(w) == SubSeq(w, 1, StarPos(w) - 1)

FrameChecksumText(w) == SubSeq(w, StarPos(w) + 1, Len(w) - 1)

\* w is written in the wire grammar
WellFormedFrame(w) ==
    /\ Len(w) > 0 /\ SubSeq(w, Len(w), Len(w)) = "\n"
    /\ SubSeq(w, 1, 1) = "N"
    /\ SpacePos(w) > 2 /\ StarPos(w) > SpacePos(w) + 1
    /\ AllDigits(FrameNumberText(w))
    /\ AllDigits(FrameChecksumText(w))

\* bit b of byte v
Bit(v, b) == (v \div (2 ^ b)) % 2

\* the exclusive-or of the bytes of s: bit b is set iff an odd number of
\* the bytes have bit b set
XorOfBytes(s) ==
    LET code == [i \in 1..Len(s) |-> Ord(SubSeq(s, i, i))]
        ones(b) == Cardinality({i \in 1..Len(s) : Bit(code[i], b) = 1})
        bitval(b) == (ones(b) % 2) * (2 ^ b)
    IN  bitval(0) + bitval(1) + bitval(2) + bitval(3)
        + bitval(4) + bitval(5) + bitval(6) + bitval(7)

\* a line made of whitespace only
IsBlankLine(l) == \A i \in 1..Len(l) : SubSeq(l, i, i) \in SpaceChars

\* a line whose first non-whitespace character is ";"
IsCommentLine(l) ==
    \E i \in 1..Len(l) :
        /\ SubSeq(l, i, i) = ";"
        /\ \A j \in 1..(i - 1) : SubSeq(l, j, j) \in SpaceChars

IsEligible(l) == ~IsBlankLine(l) /\ ~IsCommentLine(l)

\* the eligible lines of the source, in source order
Eligible == SelectSeq(src, IsEligible)

\* the command text transmitted for an eligible source line
CommandFor(l) == trim(modify_line(l, ov))

\* the frame writes of the run, in order
FrameWrites == SelectSeq(trace, IsFrameWrite)

\* number of Ok responses read before position i of the trace tr
OkReadsIn(tr, i) ==
    Cardinality({j \in 1..(i - 1) : IsRead(tr[j]) /\ ObsOk(tr[j].data)})

\* number of Ok responses read before position i of the trace
OkReadsBefore(i) == OkReadsIn(trace, i)

ResetCount(tr) == Cardinality({i \in DOMAIN tr : IsResetWrite(tr[i])})

NoResendRead == \A i \in DOMAIN trace : ~(IsRead(trace[i]) /\ ObsResend(trace[i].data))

\* positions of the first transmissions: frame writes that open the trace
\* or directly follow the read of an Ok
FirstTransmissions ==
    {i \in DOMAIN trace :
        /\ IsFrameWrite(trace[i])
        /\ i = 1 \/ (IsRead(trace[i - 1]) /\ ObsOk(trace[i - 1].data))}

\* for every run of the model, the commands its eligible lines are
\* transmitted as, in source order
ExpectedTable ==
    [sc \in Scenarios |->
        LET el == SelectSeq(sc.src, IsEligible)
        IN  [k \in 1..Len(el) |-> trim(modify_line(el[k], sc.ov))]]

\* the commands the eligible lines are transmitted as, in source order
ExpectedCommands == ExpectedTable[[src |-> src, ov |-> ov]]

\* the commands of the first transmissions, in the order written
FirstCommands ==
    LET first == FirstTransmissions
        RECURSIVE upto(_)
        upto(i) ==
            IF i = 0 THEN <<>>
            ELSE IF i \in first THEN Append(upto(i - 1), FrameCommand(trace[i].data))
            ELSE upto(i - 1)
    IN  upto(Len(trace))

FlushWrites == {i \in DOMAIN trace : IsFlushWrite(trace[i])}

\* w is in the wire grammar and the number after its "*" is the
\* exclusive-or of its payload bytes, in 0..255, without leading zeros
ChecksumHolds(w) ==
    LET cs == FrameChecksumText(w)
    IN  /\ WellFormedFrame(w)
        /\ Decimal(cs) = XorOfBytes(FramePayload(w))
        /\ Decimal(cs) \in 0..255
        /\ Len(cs) > 1 => SubSeq(cs, 1, 1) # "0"

(***************************************************************************)
(* Properties of the streaming loop (specification Spec)                   *)
(***************************************************************************)
\* C1: in a run in which no Resend has been read and no Timeout occurred,
\* the k-th command frame written carries line number k and the command of
\* the k-th eligible source line, so frames are numbered 1, 2, 3, ... in
\* source order without gap or repeat; once the source is exhausted every
\* eligible line has been sent exactly once.
LineNumbersInOrder ==
    (NoResendRead /\ pc # "failed") =>
        LET fw  == FrameWrites
            exp == ExpectedCommands
        IN  /\ Len(fw) <= Len(exp)
            /\ \A k \in 1..Len(fw) :
                  /\ WellFormedFrame(fw[k].data)
                  /\ FrameLineNo(fw[k].data) = k
                  /\ FrameCommand(fw[k].data) = exp[k]
            /\ pc \in {"flush", "done"} => Len(fw) = Len(exp)

\* a run without Resend that completed, sent two or more commands and read
\* an Unrecognized line on the way
LineNumbersInOrderWitness ==
    /\ pc = "done"
    /\ NoResendRead
    /\ Len(FrameWrites) >= 2
    /\ \E i \in DOMAIN trace : IsRead(trace[i]) /\ ObsUnrecognized(trace[i].data)

\* the entry at position i of the trace tr is in source order: a frame is
\* the frame of the (k+1)-th eligible line, where k is the number of Ok
\* responses read before it, and the flush command follows the Ok of the
\* last line
InSourceOrder(tr, i) ==
    LET exp == ExpectedCommands
        k   == OkReadsIn(tr, i)
    IN  /\ IsFrameWrite(tr[i]) =>
              /\ k + 1 <= Len(exp)
              /\ FrameCommand(tr[i].data) = exp[k + 1]
        /\ IsFlushWrite(tr[i]) => k = Len(exp)

\* C2: every command frame written (first transmission or retransmission)
\* is the frame of the (k+1)-th eligible line, where k is the number of Ok
\* responses read before it: no frame of a later line is written before the
\* Ok of the current one, none is skipped, and the flush command follows
\* the Ok of the last one.  (The trace only grows, and every entry a step
\* adds is examined.)
StrictSourceOrder ==
    [][ /\ SubSeq(trace', 1, Len(trace)) = trace
        /\ \A i \in (Len(trace) + 1)..Len(trace') : InSourceOrder(trace', i)
      ]_vars

\* a run of two or more commands that went through an Emergency Reset and
\* has had every command acknowledged
StrictSourceOrderWitness ==
    /\ pc = "flush"
    /\ Len(Eligible) >= 2
    /\ ResetCount(trace) >= 1

\* C3: every command starts with resend_streak = 0; while its Ok is
\* awaited an Ok sets resend_streak to 0, a Resend read at streak 0 or 1
\* adds 1 and performs no Emergency Reset, and a Resend read at streak 2
\* (the third) performs exactly one Emergency Reset and leaves
\* resend_streak = 0.
ResendStreakStep ==
    [][ /\ resend_streak \in 0..2
        /\ (pc = "stream" /\ pc' = "await") => resend_streak' = 0
        /\ (pc = "await" /\ trace' # trace) =>
              LET r == trace'[Len(trace) + 1].data
              IN  /\ ObsOk(r) =>
                        /\ resend_streak' = 0
                        /\ ResetCount(trace') = ResetCount(trace)
                  /\ (ObsResend(r) /\ resend_streak < 2) =>
                        /\ resend_streak' = resend_streak + 1
                        /\ ResetCount(trace') = ResetCount(trace)
                  /\ (ObsResend(r) /\ resend_streak = 2) =>
                        /\ resend_streak' = 0
                        /\ ResetCount(trace') = ResetCount(trace) + 1
      ]_vars

\* the state right after the third Resend of a command: one Emergency
\* Reset in the trace, the frame written again, the streak back at 0
ResendStreakStepWitness ==
    /\ pc = "await"
    /\ resend_streak = 0
    /\ ResetCount(trace) = 1
    /\ Len(trace) >= 9
    /\ IsFrameWrite(trace[Len(trace)])
    /\ IsResetWrite(trace[Len(trace) - 2])
    /\ IsRead(trace[Len(trace) - 3]) /\ ObsResend(trace[Len(trace) - 3].data)

\* C4: the first command frame written after an Emergency Reset carries
\* line number 1.
FrameAfterResetIsLineOne ==
    \A i \in DOMAIN trace :
        IsResetWrite(trace[i]) =>
            \A j \in (i + 1)..Len(trace) :
                (/\ IsFrameWrite(trace[j])
                 /\ \A m \in (i + 1)..(j - 1) : ~IsFrameWrite(trace[m]))
                => FrameLineNo(trace[j].data) = 1

\* C5: an empty read while a command awaits its acknowledgment is the last
\* read of the run: close follows it at once, nothing is written after it,
\* fd is closed and the exit code is 1.
EmptyReadIsFatal ==
    \A i \in DOMAIN trace :
        (/\ IsRead(trace[i])
         /\ trace[i].data = ""
         /\ \A m \in 1..(i - 1) : ~IsFlushWrite(trace[m]))
        => /\ Len(trace) = i + 1
           /\ trace[i + 1].op = "close"
           /\ ~fd_open
           /\ exit_code = 1
           /\ pc = "failed"

\* a run that failed on a received empty line, after a retransmission
EmptyReadIsFatalWitness ==
    /\ pc = "failed"
    /\ Len(FrameWrites) >= 2
    /\ Len(trace) >= 2
    /\ IsRead(trace[Len(trace) - 1])
    /\ trace[Len(trace) - 1].data = ""
    /\ trace[Len(trace) - 1].n > 0

\* C6: in a completed run the commands transmitted are exactly the source
\* lines that are neither blank nor comments, in source order: the first
\* transmissions are those commands one for one, and every frame written
\* carries one of them.
OnlyEligibleLinesSent ==
    pc = "done" =>
        LET exp == ExpectedCommands
        IN  /\ FirstCommands = exp
            /\ \A i \in DOMAIN trace :
                  IsFrameWrite(trace[i]) =>
                      \E k \in 1..Len(exp) : FrameCommand(trace[i].data) = exp[k]

\* a completed run of a source that holds comments or blank lines and a
\* command, with a retransmission on the way
OnlyEligibleLinesSentWitness ==
    /\ pc = "done"
    /\ Len(Eligible) >= 1
    /\ Len(Eligible) < Len(src)
    /\ Len(FrameWrites) > Len(Eligible)

\* C7: once every command is acknowledged, M400 has been written
\* as a numbered, checksummed frame that carries the next line number.
FlushIsNumberedFrame ==
    pc \in {"flush", "done"} =>
        \E i \in DOMAIN trace :
            /\ IsFrameWrite(trace[i])
            /\ WellFormedFrame(trace[i].data)
            /\ FrameCommand(trace[i].data) = "M400"
            /\ FrameLineNo(trace[i].data) = line_num
            /\ Decimal(FrameChecksumText(trace[i].data)) = XorOfBytes(FramePayload(trace[i].data))

\* C7, amended: M400 is written exactly once, after every command has been
\* acknowledged and not before, as the five bytes "M400\n" with no line
\* number and no checksum.
FlushIsRawM400 ==
    LET fl == FlushWrites
    IN  /\ pc \in {"flush", "done"} => Cardinality(fl) = 1
        /\ pc \notin {"flush", "done"} => fl = {}
        /\ \A i \in fl :
              /\ trace[i].data = "M400\n"
              /\ trace[i].n = 5
              /\ OkReadsBefore(i) = Len(Eligible)
              /\ Cardinality({m \in FirstTransmissions : m < i}) = Len(Eligible)
              /\ \A m \in (i + 1)..Len(trace) : trace[m].op # "write"

\* the two-command source of the end-to-end scenario, both commands
\* acknowledged without a Resend and M400 written
FlushIsRawM400Witness ==
    /\ pc = "flush"
    /\ Len(Eligible) = 2
    /\ NoResendRead
    /\ line_num = 3
    /\ IsFlushWrite(trace[Len(trace)])

\* C8: in the flush wait a read that is not an Ok changes nothing but the
\* trace (no write, no reset, no close, no exit); the process exits with
\* code 0 only from the flush wait, on reading an Ok, and closes fd then.
FlushWaitsForOk ==
    [][ /\ (pc = "flush" /\ trace' # trace) =>
              LET e == trace'[Len(trace) + 1]
              IN  /\ IsRead(e)
                  /\ ~ObsOk(e.data) =>
                        /\ trace' = Append(trace, e)
                        /\ pc' = "flush"
                        /\ fd_open'
                        /\ exit_code' = -1
                        /\ UNCHANGED <<line_num, resend_streak, sent, cmd>>
                  /\ ObsOk(e.data) =>
                        /\ trace' = trace \o <<e, Call("close", "", 0)>>
                        /\ pc' = "done"
                        /\ ~fd_open'
                        /\ exit_code' = 0
        /\ (exit_code' = 0 /\ exit_code # 0) =>
              /\ pc = "flush"
              /\ Len(trace') = Len(trace) + 2
              /\ IsRead(trace'[Len(trace) + 1])
              /\ ObsOk(trace'[Len(trace) + 1].data)
              /\ \E m \in DOMAIN trace : IsFlushWrite(trace[m])
      ]_vars

\* a run that completed after the flush wait discarded a Timeout sentinel,
\* a Resend line and an Unrecognized line
FlushWaitsForOkWitness ==
    /\ pc = "done"
    /\ \E m \in DOMAIN trace :
          /\ IsFlushWrite(trace[m])
          /\ \E i \in (m + 1)..Len(trace) : IsRead(trace[i]) /\ trace[i].data = ""
          /\ \E i \in (m + 1)..Len(trace) : IsRead(trace[i]) /\ ObsResend(trace[i].data)
          /\ \E i \in (m + 1)..Len(trace) : IsRead(trace[i]) /\ ObsUnrecognized(trace[i].data)

\* C9: every command frame written, first transmission or retransmission,
\* is in the wire grammar and the number after "*" is the exclusive-or of
\* the bytes of its payload, written in decimal without leading zeros, and
\* lies in 0..255.  (The trace only grows, and every entry a step adds is
\* examined.)
ChecksumIsXorOfPayload ==
    [][ /\ SubSeq(trace', 1, Len(trace)) = trace
        /\ \A i \in (Len(trace) + 1)..Len(trace') :
              IsFrameWrite(trace'[i]) =>
                  /\ trace'[i].n = Len(trace'[i].data)
                  /\ ChecksumHolds(trace'[i].data)
      ]_vars

\* a run with overrides in force that retransmitted the frame of its second
\* command after an Emergency Reset
ChecksumIsXorOfPayloadWitness ==
    /\ ov = AllOverrides
    /\ ResetCount(trace) >= 1
    /\ IsFrameWrite(trace[Len(trace)])
    /\ FrameLineNo(trace[Len(trace)].data) = 2

\* position of the last entry of tr that satisfies P, 0 if none
LastWhere(tr, P(_)) ==
    LET hits == {i \in DOMAIN tr : P(tr[i])}
    IN  IF hits = {} THEN 0 ELSE CHOOSE i \in hits : \A j \in hits : i >= j

IsOkRead(e) == IsRead(e) /\ ObsOk(e.data)

\* C12: the line numbers carried by consecutive acknowledged command
\* frames are strictly increasing, except that the frame acknowledged next
\* after an Emergency Reset carries 1; a Resend below the threshold and an
\* Unrecognized response leave line_num as it is.
AckedNumbersIncrease ==
    [][ (pc = "await" /\ trace' # trace) =>
            LET r      == trace'[Len(trace) + 1].data
                cur    == LastWhere(trace, IsFrameWrite)
                prevOk == LastWhere(trace, IsOkRead)
                prev   == LastWhere(SubSeq(trace, 1, prevOk), IsFrameWrite)
            IN  /\ (ObsOk(r) /\ prev > 0) =>
                      \/ FrameLineNo(trace[cur].data) > FrameLineNo(trace[prev].data)
                      \/ /\ FrameLineNo(trace[cur].data) = 1
                         /\ \E m \in (prevOk + 1)..Len(trace) : IsResetWrite(trace[m])
                /\ (ObsUnrecognized(r) \/ (ObsResend(r) /\ resend_streak < 2)) =>
                      line_num' = line_num
      ]_vars

IsResendRead(e) == IsRead(e) /\ ObsResend(e.data)

IsUnrecognizedRead(e) == IsRead(e) /\ ObsUnrecognized(e.data)

\* the positions of the reads of the trace, in order
ReadPositions == SelectSeq([i \in DOMAIN trace |-> i], LAMBDA i : IsRead(trace[i]))

\* C13: a step performs an Emergency Reset only if the response it reads
\* and the two responses read before it were all Resend, all three read
\* for the current command with no Ok and no Unrecognized response among
\* them; nothing read in the final flush wait triggers a reset.
ResetOnlyAfterThreeResendsInARow ==
    [][ ResetCount(trace') # ResetCount(trace) =>
            LET rp == ReadPositions
                n  == Len(rp)
            IN  /\ pc = "await"
                /\ IsResendRead(trace'[Len(trace) + 1])
                /\ n >= 2
                /\ IsResendRead(trace[rp[n]])
                /\ IsResendRead(trace[rp[n - 1]])
                /\ LastWhere(trace, IsOkRead) < rp[n - 1]
      ]_vars

\* C13, amended: a step performs an Emergency Reset only while a command
\* awaits its acknowledgment (never in the final flush wait), only on
\* reading a Resend, and only when exactly two Resend responses were read
\* before it since the later of the command's first transmission and the
\* previous Emergency Reset; Unrecognized responses read in between do not
\* break the streak.  Such a step performs one reset.
ResetOnlyOnThirdResend ==
    [][ ResetCount(trace') # ResetCount(trace) =>
            LET lastOk    == LastWhere(trace, IsOkRead)
                lastReset == LastWhere(trace, IsResetWrite)
                start     == IF lastOk > lastReset THEN lastOk ELSE lastReset
            IN  /\ pc = "await"
                /\ \A m \in DOMAIN trace : ~IsFlushWrite(trace[m])
                /\ IsResendRead(trace'[Len(trace) + 1])
                /\ Cardinality({j \in (start + 1)..Len(trace) : IsResendRead(trace[j])}) = 2
                /\ ResetCount(trace') = ResetCount(trace) + 1
      ]_vars

\* the state right after an Emergency Reset of a command for which an
\* Unrecognized response was read between two of the three Resend
ResetOnlyOnThirdResendWitness ==
    /\ pc = "await"
    /\ ResetCount(trace) = 1
    /\ LET reset == LastWhere(trace, IsResetWrite)
           lastOk == LastWhere(trace, IsOkRead)
       IN  /\ lastOk < reset
           /\ \E u \in (lastOk + 1)..reset :
                 /\ IsUnrecognizedRead(trace[u])
                 /\ \E a \in (lastOk + 1)..(u - 1) : IsResendRead(trace[a])
                 /\ \E b \in (u + 1)..reset : IsResendRead(trace[b])

\* position of the first transmission of the command being acknowledged
CurrentFirstTransmission ==
    LET first == FirstTransmissions
    IN  CHOOSE i \in first : \A j \in first : i >= j

\* C15: while a command awaits its acknowledgment, each Resend read is
\* followed by exactly one write of a frame, which is the last write of
\* the step and byte for byte the command's first transmission (so after
\* an Emergency Reset it still carries the pre-reset line number); a read
\* that is not a Resend is followed by no frame write.
RetransmissionIdentical ==
    [][ (pc = "await" /\ trace' # trace) =>
            LET r      == trace'[Len(trace) + 1]
                added  == SubSeq(trace', Len(trace) + 2, Len(trace'))
                frames == SelectSeq(added, IsFrameWrite)
            IN  /\ IsRead(r)
                /\ SubSeq(trace', 1, Len(trace)) = trace
                /\ ObsResend(r.data) =>
                      /\ frames = <<trace[CurrentFirstTransmission]>>
                      /\ trace'[Len(trace')] = trace[CurrentFirstTransmission]
                /\ ~ObsResend(r.data) => frames = <<>>
      ]_vars

\* the state right after the retransmission that follows an Emergency
\* Reset of the second command: the frame on the wire carries 2 while
\* line_num is 1
RetransmissionIdenticalWitness ==
    /\ pc = "await"
    /\ ResetCount(trace) = 1
    /\ line_num = 1
    /\ IsFrameWrite(trace[Len(trace)])
    /\ FrameLineNo(trace[Len(trace)].data) = 2
    /\ trace[Len(trace) - 1].op = "tcflush"

\* C16: an Unrecognized response read while a command awaits its
\* acknowledgment changes nothing: the read is the only call of the step
\* (nothing is written), line_num, resend_streak and sent keep their
\* values, and the session goes on waiting for the acknowledgment of the
\* same frame.
UnrecognizedChangesNothing ==
    [][ (/\ pc = "await"
         /\ trace' # trace
         /\ ObsUnrecognized(trace'[Len(trace) + 1].data))
        => /\ trace' = Append(trace, trace'[Len(trace) + 1])
           /\ IsRead(trace'[Len(trace) + 1])
           /\ pc' = "await"
           /\ UNCHANGED <<line_num, resend_streak, sent, cmd, idx, fd_open, exit_code>>
      ]_vars

\* the state right after an Unrecognized response read with two Resend
\* already counted for the command
UnrecognizedChangesNothingWitness ==
    /\ pc = "await"
    /\ resend_streak = 2
    /\ IsUnrecognizedRead(trace[Len(trace)])
    /\ sent = 2

\* the elements of a sequence
Range(q) == {q[i] : i \in DOMAIN q}

\* C18: a step that performs an Emergency Reset makes, after the read of
\* the Resend, exactly these calls in this order: the write of M112 then
\* M999, the flush of the channel, the write of the current frame; and it
\* leaves the input buffer empty, so that a response pending when the
\* reset started is never read: a read only ever returns the oldest
\* response in the buffer, and a response only ever enters the buffer as a
\* newly arrived one.
ResetDiscardsPendingInput ==
    [][ /\ ResetCount(trace') # ResetCount(trace) =>
              /\ Len(trace') = Len(trace) + 4
              /\ IsResendRead(trace'[Len(trace) + 1])
              /\ trace'[Len(trace) + 2].op = "write"
              /\ find(trace'[Len(trace) + 2].data, "M112\n") = 0
              /\ find(trace'[Len(trace) + 2].data, "M999\n") = 5
              /\ trace'[Len(trace) + 3].op = "tcflush"
              /\ trace'[Len(trace) + 4] = trace[LastWhere(trace, IsFrameWrite)]
              /\ inbuf' = <<>>
        /\ \A i \in (Len(trace) + 1)..Len(trace') :
              IsRead(trace'[i]) =>
                  \/ trace'[i].n = 0 /\ trace'[i].data = ""
                  \/ inbuf # <<>> /\ trace'[i].n = Head(inbuf) /\ Head(inbuf) \notin Range(inbuf')
        /\ \A k \in Range(inbuf') \ Range(inbuf) : k > arrived /\ k <= arrived'
        /\ \A k \in Range(inbuf) : k <= arrived
        /\ arrived' >= arrived
      ]_vars

\* a run in which a response was pending when an Emergency Reset started:
\* the Resend read before the reset is arrival k, and the next response
\* read after the reset is arrival k + 2 or later
ResetDiscardsPendingInputWitness ==
    /\ ResetCount(trace) = 1
    /\ IsRead(trace[Len(trace)])
    /\ LET reset == LastWhere(trace, IsResetWrite)
       IN  /\ \A m \in (reset + 1)..(Len(trace) - 1) : ~IsRead(trace[m])
           /\ trace[Len(trace)].n >= trace[reset - 1].n + 2

\* number of commands acknowledged with Ok so far: the Ok responses read
\* before the flush command was written
AcknowledgedCommands ==
    LET fl == FlushWrites
    IN  IF fl = {} THEN OkReadsBefore(Len(trace) + 1)
        ELSE OkReadsBefore(CHOOSE i \in fl : TRUE)

\* C20: in every reachable state, while an acknowledgment is awaited and
\* at a fatal Timeout too, sent equals the number of commands acknowledged
\* with Ok so far, and it never exceeds total.
SentEqualsAcknowledged ==
    /\ sent = AcknowledgedCommands
    /\ sent <= total

\* C20, amended: sent is incremented exactly once per command, when the
\* command's frame is first written: in every reachable state it equals
\* the number of first transmissions, which is the number of commands
\* acknowledged with Ok so far plus one while an acknowledgment is awaited
\* and after a fatal Timeout; retransmissions do not count, and sent never
\* exceeds total.
SentCountsFirstTransmissions ==
    /\ sent = Cardinality(FirstTransmissions)
    /\ sent = AcknowledgedCommands + (IF pc \in {"await", "failed"} THEN 1 ELSE 0)
    /\ sent <= total

\* a run that failed on a Timeout while its second command, retransmitted
\* once, awaited its acknowledgment
SentCountsFirstTransmissionsWitness ==
    /\ pc = "failed"
    /\ sent = 2
    /\ AcknowledgedCommands = 1
    /\ Len(FrameWrites) = 3

(***************************************************************************)
(* Properties of modify_line (specification SpecT)                         *)
(***************************************************************************)
\* a token the Transformer reads as a feedrate parameter
IsFToken(tok) == Len(tok) >= 2 /\ SubSeq(tok, 1, 1) \in {"F", "f"}

\* a token the Transformer reads as a setpoint parameter
IsSToken(tok) == Len(tok) >= 2 /\ SubSeq(tok, 1, 1) \in {"S", "s"}

\* the line starts with the mnemonic of a temperature command
HasTempMnemonic(line) ==
    LET t == trim(line)
    IN  Len(t) >= 4 /\ SubSeq(t, 1, 4) \in {"M140", "M190", "M104", "M109"}

\* the line holds no F token and no S token under a temperature mnemonic
NoRuleApplies(line) ==
    LET toks == Tokens(trim(line))
    IN  \A i \in DOMAIN toks :
            /\ ~IsFToken(toks[i])
            /\ ~(IsSToken(toks[i]) /\ HasTempMnemonic(line))

\* a command line: not empty and not a comment once trimmed
IsCommandLine(line) == trim(line) # "" /\ SubSeq(trim(line), 1, 1) # ";"

\* C10: a command line with no F token and no S token under a temperature
\* mnemonic is returned unchanged, whatever the whitespace between its
\* tokens and whatever the Overrides.
UntouchedLineUnchanged ==
    (/\ t_ret.status = "returned"
     /\ IsCommandLine(t_orig)
     /\ NoRuleApplies(t_orig))
    => t_ret.value = t_orig

(***************************************************************************)
(* Properties of feedrate scaling (specification SpecF)                    *)
(***************************************************************************)
\* a / b rounded to the nearest integer, halves away from zero (b > 0)
RoundHalfAway(a, b) ==
    IF a >= 0 THEN (2 * a + b) \div (2 * b) ELSE 0 - ((2 * (0 - a) + b) \div (2 * b))

\* C11: for every integer value v of the range (zero and negative values
\* included) and every positive feedrate percentage p, "G1 F<v>" comes back
\* as "G1 F<r>" with r = v * p / 100 rounded half away from zero.
FeedrateRoundsHalfAway ==
    \A v \in FValues : \A p \in FPercents :
        (/\ t_ret.status = "returned"
         /\ t_orig = FLine(v)
         /\ t_ov.feedrate_percent = p)
        => t_ret.value = "G1 F" \o to_string(RoundHalfAway(v * p, 100))

(***************************************************************************)
(* Properties of read_line (specification SpecR)                           *)
(***************************************************************************)
\* C14: every call of read_line eventually returns, whatever the channel
\* does (reads of zero bytes, bytes without a line terminator, failing
\* reads).
ReadLineReturns == <>(rl.pc = "returned")

(***************************************************************************)
(* Properties of the classification of responses (specification SpecC)     *)
(***************************************************************************)
ObsHasResendWord(resp) ==
    \/ \E i \in 1..(Len(resp) - 1) : SubSeq(resp, i, i + 1) = "rs"
    \/ \E i \in 1..(Len(resp) - 5) : SubSeq(resp, i, i + 5) = "Resend"

\* C17: every response line gets exactly one class, by fixed precedence:
\* the empty line is Timeout; otherwise a line containing "ok" is Ok, even
\* if it also contains "Resend" or "rs"; otherwise a line containing
\* "Resend" or "rs" is Resend; otherwise it is Unrecognized.
ClassificationPrecedence ==
    ack.class # "none" =>
        /\ ack.class \in {"Timeout", "Ok", "Resend", "Unrecognized"}
        /\ ack.class = "Timeout" <=> ack.resp = ""
        /\ ack.class = "Ok" <=> (ack.resp # "" /\ ObsOk(ack.resp))
        /\ ack.class = "Resend" <=>
              (ack.resp # "" /\ ~ObsOk(ack.resp) /\ ObsHasResendWord(ack.resp))
        /\ ack.class = "Unrecognized" <=>
              (ack.resp # "" /\ ~ObsOk(ack.resp) /\ ~ObsHasResendWord(ack.resp))

\* a line that contains "Resend" and "rs" and "ok" and was taken for Ok
ClassificationPrecedenceWitness ==
    /\ ack.class = "Ok"
    /\ ack.resp = "Resendrsok"

(***************************************************************************)
(* Properties of the loop of resend requests (specification SpecU)         *)
(***************************************************************************)
\* C19: against a firmware that answers every frame with Resend the
\* session never fails and never completes; once it has sent a command it
\* never advances past it, performs an Emergency Reset on every third
\* Resend and on no other, and goes on doing so for ever: the run does not
\* terminate.
NoBoundOnRecovery ==
    /\ [](pc \in {"stream", "await"} /\ fd_open /\ exit_code = -1)
    /\ [][pc = "await" =>
            /\ pc' = "await"
            /\ UNCHANGED <<idx, sent, cmd>>
            /\ IsResendRead(trace'[1])
            /\ ResetCount(trace') = (IF resend_streak = 2 THEN 1 ELSE 0)
            /\ trace'[Len(trace')] = Call("write", cmd, Len(cmd))]_vars
    /\ [](pc = "await" => <>(ResetCount(trace) = 1))
    /\ [](pc = "await" => <>(ResetCount(trace) = 0))

\* the state right after the second Emergency Reset of a run whose first
\* line is a comment
NoBoundOnRecoveryWitness ==
    /\ pc = "await"
    /\ arrived = 6
    /\ ResetCount(trace) = 1
    /\ resend_streak = 0
    /\ idx = 2
    /\ sent = 1

====
